---------------------------- MODULE Spec2Model ----------------------------
(***************************************************************************)
(* Model of the Coinbase ingestion pipeline of                             *)
(* src/ingestion/coinbase/main.py: the OHLCV bar accumulator, the bucket   *)
(* store (CoinbaseIngestor.agg), the websocket feed loop (connect_ws),     *)
(* the REST fallback and the supervisor loop (run), the flush             *)
(* (maybe_flush_old_buckets) and the BigQuery row sink (write_rows_bq).    *)
(*                                                                         *)
(* Time is counted in units of 1/UnitsPerHour hour.  A datetime is a       *)
(* record [wall, off]: the wall-clock reading and the UTC offset of its    *)
(* tzinfo; the instant it denotes is wall - off.                           *)
(***************************************************************************)
EXTENDS Integers, Sequences, FiniteSets, TLC

\* ------------------------------------------------------------- bounds
MaxTicks == 2
MaxClock == 2
UnitsPerHour == 2
MaxBarTicks == 3
MaxBarPrice == 3
MaxBarSize == 2

\* --------------------------------------------------- program constants
None == -1
PRODUCT_ID == "BTC-USD"

\* the tick values of the pipeline model: two prices tell open from close and
\* high from low, an absent size counts 0.0; the accumulator on its own is
\* run over BarPrices and BarSizes
Prices == {1, 2}
Sizes == {1}
Offsets == {0, UnitsPerHour}
Walls == 0..MaxClock

VARIABLES
    pc,        \* position of the run() coroutine
    running,   \* self.running
    ws,        \* whether the websocket connection of connect_ws is open
    agg,       \* self.agg: the dict, as a sequence of entries in insertion order
    inflight,  \* the batch write_rows_bq is executing in the worker, or << >>
    clock,     \* the wall clock, in units
    sink,      \* history: every batch handed to write_rows_bq, in order
    applied,   \* history: per key of agg, the ticks applied to its entry
    keyed,     \* history: per absorbed tick <<UTC hour of its instant, key>>
    hours,     \* history: the clock hours in which ticks were absorbed
    nabs,      \* history: number of ticks absorbed
    vol        \* history: the sum of the sizes of the ticks absorbed

vars == <<pc, running, ws, agg, inflight, clock, sink, applied, keyed, hours, nabs, vol>>

\* ------------------------------------------------------------ datetimes
Instant(dt) == dt.wall - dt.off

DtLess(a, b) == Instant(a) < Instant(b)

utc_now(c) == [wall |-> c, off |-> 0]

isoformat(dt) == <<dt.wall, dt.off>>

isoparse(s) == [wall |-> s[1], off |-> s[2]]

\* t.replace(minute=0, second=0, microsecond=0, tzinfo=timezone.utc)
hour_start_utc(t) == [wall |-> (t.wall \div UnitsPerHour) * UnitsPerHour, off |-> 0]

\* the current hour taken as now itself, the replace left out
hour_start_not_floored(t) == t

\* now.replace(minute=0, second=0, microsecond=0)
hour_start(t) == [wall |-> (t.wall \div UnitsPerHour) * UnitsPerHour, off |-> t.off]

\* ----------------------------------------------------------------- OHLCV
OHLCV == [open |-> None, high |-> None, low |-> None, close |-> None, volume |-> 0]

\* add_tick with the high comparison turned round
add_tick_high_reversed(o, price, size) ==
    [open   |-> IF o.open = None THEN price ELSE o.open,
     high   |-> IF (o.high = None \/ price < o.high) THEN price ELSE o.high,
     low    |-> IF (o.low = None \/ price < o.low) THEN price ELSE o.low,
     close  |-> price,
     volume |-> o.volume + size]

\* add_tick with low set by the first tick only
add_tick_low_first_only(o, price, size) ==
    [open   |-> IF o.open = None THEN price ELSE o.open,
     high   |-> IF (o.high = None \/ price > o.high) THEN price ELSE o.high,
     low    |-> IF o.low = None THEN price ELSE o.low,
     close  |-> price,
     volume |-> o.volume + size]

\* add_tick with the volume assigned where the code adds to it
add_tick_volume_overwritten(o, price, size) ==
    [open   |-> IF o.open = None THEN price ELSE o.open,
     high   |-> IF (o.high = None \/ price > o.high) THEN price ELSE o.high,
     low    |-> IF (o.low = None \/ price < o.low) THEN price ELSE o.low,
     close  |-> price,
     volume |-> size]

add_tick(o, price, size) ==
    [open   |-> IF o.open = None THEN price ELSE o.open,
     high   |-> IF (o.high = None \/ price > o.high) THEN price ELSE o.high,
     low    |-> IF (o.low = None \/ price < o.low) THEN price ELSE o.low,
     close  |-> price,
     volume |-> o.volume + size]

to_row(o, symbol, ts) ==
    [timestamp |-> isoformat(ts),
     symbol    |-> symbol,
     open      |-> IF o.open # None THEN o.open ELSE None,
     high      |-> IF o.high # None THEN o.high ELSE None,
     low       |-> IF o.low # None THEN o.low ELSE None,
     close     |-> IF o.close # None THEN o.close ELSE None,
     volume    |-> o.volume]

\* ---------------------------------------------------- the dict self.agg
Keys(a) == {a[i].k : i \in DOMAIN a}

Entry(a, key) == a[CHOOSE i \in DOMAIN a : a[i].k = key]

\* the defaultdict entry created, its first tick not applied
agg_add_tick_created_empty(a, key, price, size) ==
    IF key \in Keys(a)
    THEN [i \in DOMAIN a |->
            IF a[i].k = key
            THEN [k |-> key, o |-> add_tick(a[i].o, price, size)]
            ELSE a[i]]
    ELSE Append(a, [k |-> key, o |-> OHLCV])

\* self.agg[key].add_tick(price, size) on a defaultdict(OHLCV)
agg_add_tick(a, key, price, size) ==
    IF key \in Keys(a)
    THEN [i \in DOMAIN a |->
            IF a[i].k = key
            THEN [k |-> key, o |-> add_tick(a[i].o, price, size)]
            ELSE a[i]]
    ELSE Append(a, [k |-> key, o |-> add_tick(OHLCV, price, size)])


\* ------------------------------------------------- maybe_flush_old_buckets
\* the flush test with <= for <
is_old_inclusive(k, current_hour) == ~DtLess(current_hour, isoparse(k))

\* parser.isoparse(k) < current_hour
is_old(k, current_hour) == DtLess(isoparse(k), current_hour)

\* the flush reading self.agg[k] where the code pops it: the rows are built,
\* the entries stay
maybe_flush_keeps_entries(a, now) ==
    LET current_hour == hour_start(now)
        Old(e) == is_old(e.k, current_hour)
        to_flush == SelectSeq(a, Old)
    IN  [rows |-> [i \in DOMAIN to_flush |->
                     to_row(to_flush[i].o, PRODUCT_ID, isoparse(to_flush[i].k))],
         agg  |-> a]

\* the list to_flush, the rows built from the popped entries, and what is left
maybe_flush_old_buckets(a, now) ==
    LET current_hour == hour_start(now)
        Old(e) == is_old(e.k, current_hour)
        Kept(e) == ~is_old(e.k, current_hour)
        to_flush == SelectSeq(a, Old)
    IN  [rows |-> [i \in DOMAIN to_flush |->
                     to_row(to_flush[i].o, PRODUCT_ID, isoparse(to_flush[i].k))],
         agg  |-> SelectSeq(a, Kept)]

\* --------------------------------------------------------- inbound data
\* A JSON field as data.get(...) returns it: "ok" with a parseable value,
\* "absent" (the key is missing) or "bad" (null or an unparseable value).
NumFields(S) == {[tag |-> "ok", v |-> x] : x \in S}
                  \cup {[tag |-> "absent", v |-> 0], [tag |-> "bad", v |-> 0]}

TimeFields == {[tag |-> "ok", wall |-> w, off |-> o] : w \in Walls, o \in Offsets}
                \cup {[tag |-> "absent", wall |-> 0, off |-> 0],
                      [tag |-> "bad", wall |-> 0, off |-> 0]}

NoField == [tag |-> "absent", v |-> 0]
NoTime == [tag |-> "absent", wall |-> 0, off |-> 0]

\* a websocket frame: not JSON, JSON that is no object, or an object
Objects == [json : {"object"}, type : {"match"},
            price : NumFields(Prices), size : NumFields(Sizes), time : TimeFields]
             \cup [json : {"object"}, type : {"other"},
                   price : {NoField}, size : {NoField}, time : {NoTime}]

NonObjects == [json : {"invalid", "nonobject"}, type : {"other"},
               price : {NoField}, size : {NoField}, time : {NoTime}]

Messages == Objects \cup NonObjects


\* the body of a ticker response, as r.json() returns it
Tickers == [json : {"object"}, type : {"other"},
            price : NumFields(Prices), size : NumFields(Sizes), time : TimeFields]
             \cup [json : {"nonobject"}, type : {"other"},
                   price : {NoField}, size : {NoField}, time : {NoTime}]

\* float(x): the exception it raises, or "none"
float_exc(f) == IF f.tag = "absent" THEN "TypeError"
                ELSE IF f.tag = "bad" THEN "ValueError" ELSE "none"

\* float(data.get("size", 0.0))
size_exc(f) == IF f.tag = "bad" THEN "ValueError" ELSE "none"

size_of(f) == IF f.tag = "absent" THEN 0 ELSE f.v

\* parser.isoparse(x): the exception it raises, or "none"
isoparse_exc(f) == IF f.tag = "absent" THEN "TypeError"
                   ELSE IF f.tag = "bad" THEN "ValueError" ELSE "none"

time_of(f) == [wall |-> f.wall, off |-> f.off]

\* the first exception handle_trade_msg raises before add_tick, or "none"
handle_trade_msg_exc(data) ==
    IF float_exc(data.price) # "none" THEN float_exc(data.price)
    ELSE IF size_exc(data.size) # "none" THEN size_exc(data.size)
    ELSE isoparse_exc(data.time)

\* key = hour_ts.isoformat()
bucket_key(t) == isoformat(hour_start_utc(t))

\* handle_trade_msg without the flush
handle_trade_msg_no_flush(a, price, size, t, now) ==
    [key |-> bucket_key(t), agg |-> agg_add_tick(a, bucket_key(t), price, size), rows |-> << >>]

\* handle_trade_msg dropping a trade whose bucket is before the current hour
handle_trade_msg_drops_late(a, price, size, t, now) ==
    LET key == bucket_key(t)
        late == is_old(key, hour_start(now))
        fl == maybe_flush_old_buckets(
                  IF late THEN a ELSE agg_add_tick(a, key, price, size), now)
    IN  [key |-> key, agg |-> fl.agg, rows |-> fl.rows]

\* add_tick on the entry of the key of t, then the flush
handle_trade_msg(a, price, size, t, now) ==
    LET key == bucket_key(t)
        fl == maybe_flush_old_buckets(agg_add_tick(a, key, price, size), now)
    IN  [key |-> key, agg |-> fl.agg, rows |-> fl.rows]

\* what one frame does inside the async for of connect_ws:
\* "drop" (continue), "ignore" (no match), "raise" or "tick"
frame_effect(m) ==
    IF m.json = "invalid" THEN "drop"
    ELSE IF m.json = "nonobject" THEN "raise"
    ELSE IF m.type # "match" THEN "ignore"
    ELSE IF handle_trade_msg_exc(m) # "none" THEN "raise" ELSE "tick"

frame_exc(m) == IF m.json = "nonobject" THEN "AttributeError" ELSE handle_trade_msg_exc(m)

\* the first exception the fallback raises before add_tick, or "none"
ticker_exc(tk) ==
    IF tk.json = "nonobject" THEN "AttributeError"
    ELSE IF float_exc(tk.price) # "none" THEN float_exc(tk.price)
    ELSE IF size_exc(tk.size) # "none" THEN size_exc(tk.size)
    ELSE IF tk.time.tag = "bad" THEN "ValueError" ELSE "none"

SkipFrames == {m \in Messages : frame_effect(m) \in {"drop", "ignore"}}
RaiseFrames == {m \in Messages : frame_effect(m) = "raise"}
TickFrames == {m \in Messages : frame_effect(m) = "tick"}
BadTickers == {tk \in Tickers : ticker_exc(tk) # "none"}
GoodTickers == {tk \in Tickers : ticker_exc(tk) = "none"}

\* --------------------------------------------------------- the run loop
ExceptionClasses == {"OSError", "ConnectionClosedError", "AttributeError",
                     "TypeError", "ValueError", "GoogleAPIError"}

\* a handler that names one class only: except OSError
caught_only_oserror(e) == e = "OSError"

\* except Exception as e (around connect_ws)
caught_ws(e) == e \in ExceptionClasses

\* except Exception as re (around the REST fallback)
caught_rest(e) == e \in ExceptionClasses

\* while self.running
loop_top == IF running THEN "connecting" ELSE "returned"

\* a handler that goes straight back to the connect, without the fallback
after_ws_raise_reconnects(e) == IF caught_ws(e) THEN "connecting" ELSE "raised"

after_ws_raise(e) == IF caught_ws(e) THEN "polling" ELSE "raised"

\* a fallback that asks the ticker again when the cycle failed
after_rest_raise_repoll(e) == IF caught_rest(e) THEN "polling" ELSE "raised"

after_rest_raise(e) == IF caught_rest(e) THEN "sleeping" ELSE "raised"

HourOf(n) == n \div UnitsPerHour

\* the history of the ticks applied to each entry of the store
AppliedAfter(key, price, size, left) ==
    LET was == IF key \in DOMAIN applied THEN applied[key] ELSE << >>
    IN  [k \in Keys(left) |->
           IF k = key THEN Append(was, <<price, size>>) ELSE applied[k]]

Init ==
    /\ pc = "init"
    /\ running = FALSE
    /\ ws = FALSE
    /\ agg = << >>
    /\ inflight = << >>
    /\ clock = 0
    /\ sink = << >>
    /\ applied = << >>
    /\ keyed = {}
    /\ hours = {}
    /\ nabs = 0
    /\ vol = 0

\* asyncio task start: run() sets self.running and enters the loop
RunStart ==
    /\ pc = "init"
    /\ running' = TRUE
    /\ pc' = IF running' THEN "connecting" ELSE "returned"
    /\ UNCHANGED <<ws, agg, inflight, clock, sink, applied, keyed, hours, nabs, vol>>

\* websockets.connect and the subscribe both succeed
ConnectOk ==
    /\ pc = "connecting"
    /\ ws' = TRUE
    /\ pc' = "streaming"
    /\ UNCHANGED <<running, agg, inflight, clock, sink, applied, keyed, hours, nabs, vol>>

\* websockets.connect raises, or ws.send of the subscribe raises
ConnectFail(e) ==
    /\ pc = "connecting"
    /\ ws' = FALSE
    /\ pc' = after_ws_raise(e)
    /\ UNCHANGED <<running, agg, inflight, clock, sink, applied, keyed, hours, nabs, vol>>

\* the async for ends: the server closed the connection cleanly
WsClose ==
    /\ pc = "streaming"
    /\ ws' = FALSE
    /\ pc' = loop_top
    /\ UNCHANGED <<running, agg, inflight, clock, sink, applied, keyed, hours, nabs, vol>>

\* the async for raises: the connection broke
WsError ==
    /\ pc = "streaming"
    /\ ws' = FALSE
    /\ pc' = after_ws_raise("ConnectionClosedError")
    /\ UNCHANGED <<running, agg, inflight, clock, sink, applied, keyed, hours, nabs, vol>>

\* one frame that the async for body skips: no JSON, or no match
WsSkip(m) ==
    /\ pc = "streaming"
    /\ frame_effect(m) \in {"drop", "ignore"}
    /\ UNCHANGED <<pc, running, ws, agg, inflight, clock, sink, applied, keyed, hours, nabs, vol>>

\* one frame on which the async for body raises, out of connect_ws
WsRaise(m) ==
    /\ pc = "streaming"
    /\ frame_effect(m) = "raise"
    /\ ws' = FALSE
    /\ pc' = after_ws_raise(frame_exc(m))
    /\ UNCHANGED <<running, agg, inflight, clock, sink, applied, keyed, hours, nabs, vol>>

\* the read loop starting handle_trade_msg as a task of its own, not awaiting
\* it: the next frame is taken while the handler before it awaits its write
WsTick_as_task(m) ==
    /\ pc \in {"streaming", "ws_write"}
    /\ frame_effect(m) = "tick"
    /\ nabs < MaxTicks
    /\ LET price == m.price.v
           size == size_of(m.size)
           t == time_of(m.time)
           r == handle_trade_msg(agg, price, size, t, utc_now(clock))
       IN  /\ agg' = r.agg
           /\ applied' = AppliedAfter(r.key, price, size, r.agg)
           /\ keyed' = keyed \cup {<<HourOf(Instant(t)), r.key>>}
           /\ hours' = hours \cup {HourOf(clock)}
           /\ IF r.rows # << >>
              THEN /\ inflight' = r.rows
                   /\ sink' = Append(sink, r.rows)
                   /\ pc' = "ws_write"
              ELSE /\ UNCHANGED <<inflight, sink, pc>>
           /\ vol' = vol + size
    /\ nabs' = nabs + 1
    /\ UNCHANGED <<running, ws, clock>>

\* one match frame: handle_trade_msg up to the await of the executor
WsTick(m) ==
    /\ pc = "streaming"
    /\ frame_effect(m) = "tick"
    /\ nabs < MaxTicks
    /\ LET price == m.price.v
           size == size_of(m.size)
           t == time_of(m.time)
           r == handle_trade_msg(agg, price, size, t, utc_now(clock))
       IN  /\ agg' = r.agg
           /\ applied' = AppliedAfter(r.key, price, size, r.agg)
           /\ keyed' = keyed \cup {<<HourOf(Instant(t)), r.key>>}
           /\ hours' = hours \cup {HourOf(clock)}
           /\ IF r.rows # << >>
              THEN /\ inflight' = r.rows
                   /\ sink' = Append(sink, r.rows)
                   /\ pc' = "ws_write"
              ELSE /\ UNCHANGED <<inflight, sink>>
                   /\ pc' = "streaming"
           /\ vol' = vol + size
    /\ nabs' = nabs + 1
    /\ UNCHANGED <<running, ws, clock>>

\* rest_get_ticker raises: connect error, timeout, non-2xx status, bad body
PollFail ==
    /\ pc = "polling"
    /\ pc' = after_rest_raise("OSError")
    /\ UNCHANGED <<running, ws, agg, inflight, clock, sink, applied, keyed, hours, nabs, vol>>

\* rest_get_ticker returns a body the fallback cannot use
PollBad(tk) ==
    /\ pc = "polling"
    /\ ticker_exc(tk) # "none"
    /\ pc' = after_rest_raise(ticker_exc(tk))
    /\ UNCHANGED <<running, ws, agg, inflight, clock, sink, applied, keyed, hours, nabs, vol>>

\* rest_get_ticker returns a usable ticker: add_tick, flush, up to the next
\* await.  Without a time the fallback reads the clock, and the flush reads
\* it again: adv is what the clock advanced in between.
PollTick(tk, adv) ==
    /\ pc = "polling"
    /\ ticker_exc(tk) = "none"
    /\ nabs < MaxTicks
    /\ adv \in (IF tk.time.tag = "absent" THEN {0, 1} ELSE {0})
    /\ clock + adv <= MaxClock
    /\ clock' = clock + adv
    /\ LET price == tk.price.v
           size == size_of(tk.size)
           t == IF tk.time.tag = "ok" THEN time_of(tk.time) ELSE utc_now(clock)
           r == handle_trade_msg(agg, price, size, t, utc_now(clock'))
       IN  /\ agg' = r.agg
           /\ applied' = AppliedAfter(r.key, price, size, r.agg)
           /\ keyed' = keyed \cup {<<HourOf(Instant(t)), r.key>>}
           /\ hours' = hours \cup {HourOf(clock')}
           /\ IF r.rows # << >>
              THEN /\ inflight' = r.rows
                   /\ sink' = Append(sink, r.rows)
                   /\ pc' = "poll_write"
              ELSE /\ UNCHANGED <<inflight, sink>>
                   /\ pc' = "sleeping"
           /\ vol' = vol + size
    /\ nabs' = nabs + 1
    /\ UNCHANGED <<running, ws>>

\* write_rows_bq returns in the worker: insert_rows_json gave per-row errors
\* (logged as an error) or none (logged as info); the awaiting flush resumes
WriteReturn(errors) ==
    /\ pc \in {"ws_write", "poll_write"}
    /\ inflight' = << >>
    /\ pc' = IF pc = "ws_write" THEN "streaming" ELSE "sleeping"
    /\ UNCHANGED <<running, ws, agg, clock, sink, applied, keyed, hours, nabs, vol>>

\* a write that is handed the same batch again when the insert raises
WriteRaise_resubmits ==
    /\ pc \in {"ws_write", "poll_write"}
    /\ sink' = Append(sink, inflight)
    /\ UNCHANGED <<pc, running, ws, agg, inflight, clock, applied, keyed, hours, nabs, vol>>

\* insert_rows_json raises in the worker: the awaiting flush re-raises it
WriteRaise ==
    /\ pc \in {"ws_write", "poll_write"}
    /\ inflight' = << >>
    /\ ws' = FALSE
    /\ pc' = IF pc = "ws_write" THEN after_ws_raise("GoogleAPIError")
                                ELSE after_rest_raise("GoogleAPIError")
    /\ UNCHANGED <<running, agg, clock, sink, applied, keyed, hours, nabs, vol>>

\* a fallback that keeps polling after its sleep, without trying the stream
SleepDone_repolls ==
    /\ pc = "sleeping"
    /\ pc' = "polling"
    /\ UNCHANGED <<running, ws, agg, inflight, clock, sink, applied, keyed, hours, nabs, vol>>

\* asyncio.sleep(5) returns
SleepDone ==
    /\ pc = "sleeping"
    /\ pc' = loop_top
    /\ UNCHANGED <<running, ws, agg, inflight, clock, sink, applied, keyed, hours, nabs, vol>>

\* the wall clock advances
Tick ==
    /\ clock < MaxClock
    /\ clock' = clock + 1
    /\ UNCHANGED <<pc, running, ws, agg, inflight, sink, applied, keyed, hours, nabs, vol>>

Next ==
    \/ RunStart
    \/ ConnectOk
    \/ \E e \in {"OSError", "ConnectionClosedError"} : ConnectFail(e)
    \/ WsClose
    \/ WsError
    \/ \E m \in SkipFrames : WsSkip(m)
    \/ \E m \in RaiseFrames : WsRaise(m)
    \/ \E m \in TickFrames : WsTick(m)
    \/ PollFail
    \/ \E tk \in BadTickers : PollBad(tk)
    \/ \E tk \in GoodTickers, adv \in {0, 1} : PollTick(tk, adv)
    \/ \E errors \in BOOLEAN : WriteReturn(errors)
    \/ WriteRaise
    \/ SleepDone
    \/ Tick

Spec == Init /\ [][Next]_vars

\* The scheduling of run(): the ticker request ends (httpx timeout=10.0),
\* asyncio.sleep(5) ends, and a write started in the worker ends.
PollStep ==
    /\ pc = "polling"
    /\ \/ PollFail
       \/ \E tk \in BadTickers : PollBad(tk)
       \/ \E tk \in GoodTickers, adv \in {0, 1} : PollTick(tk, adv)

WriteStep == (\E errors \in BOOLEAN : WriteReturn(errors)) \/ WriteRaise

FairSpec == Spec /\ WF_vars(PollStep) /\ WF_vars(SleepDone) /\ WF_vars(WriteStep)

\* ---------------------------------------- the bar accumulator on its own
BarPrices == 1..MaxBarPrice
BarSizes == 1..MaxBarSize
BarKey == bucket_key(utc_now(0))

\* self.agg[key].add_tick(price, size) on one key, without the flush
BarTick(price, size) ==
    /\ nabs < MaxBarTicks
    /\ agg' = agg_add_tick(agg, BarKey, price, size)
    /\ applied' = AppliedAfter(BarKey, price, size, agg')
    /\ nabs' = nabs + 1
    /\ vol' = vol + size
    /\ UNCHANGED <<pc, running, ws, inflight, clock, sink, keyed, hours>>

NextBar == \E price \in BarPrices, size \in BarSizes : BarTick(price, size)

SpecBar == Init /\ [][NextBar]_vars

\* ------------------------------------------------------ helper notions
Streaming == pc \in {"streaming", "ws_write"}
Polling == pc \in {"polling", "poll_write", "sleeping"}

RECURSIVE SumSizes(_)
SumSizes(tk) == IF tk = << >> THEN 0 ELSE tk[1][2] + SumSizes(Tail(tk))

PricesOf(tk) == {tk[j][1] : j \in DOMAIN tk}
MaxOf(S) == CHOOSE x \in S : \A y \in S : y <= x
MinOf(S) == CHOOSE x \in S : \A y \in S : x <= y

\* the start of the bucket a key names, and the hour boundary of a clock reading
KeyStart(k) == k[1] - k[2]
Boundary(c) == (c \div UnitsPerHour) * UnitsPerHour

\* ------------------------------------------------------------ claims

\* C1: a failed storage write while a stream connection is open (per-row
\* errors returned, or the insert raising) leaves the supervisor in STREAMING
\* on the same open connection, reading the next frame: no teardown, no
\* fallback poll, no sleep.
C1_WriteFailureKeepsStreaming ==
    [][(pc = "ws_write" /\ ws /\ (WriteReturn(TRUE) \/ WriteRaise))
          => (pc' = "streaming" /\ ws')]_vars

\* C2: while a dispatched write is still in progress on the stream path, the
\* next trade frame can be absorbed.
C2_NextTickNotBlockedByWrite ==
    (pc = "ws_write" /\ inflight # << >> /\ nabs < MaxTicks)
        => ENABLED (\E m \in TickFrames : WsTick(m))

\* C3: a malformed frame (no JSON, JSON that is no object, a match without a
\* usable price, size or time) leaves the Bucket Store unchanged, the
\* connection open and the supervisor in STREAMING.
MalformedFrames ==
    {m \in Messages :
        \/ m.json \in {"invalid", "nonobject"}
        \/ (m.type = "match" /\ (m.price.tag # "ok" \/ m.size.tag # "ok" \/ m.time.tag # "ok"))}

C3_MalformedFrameDropped ==
    [][\A m \in MalformedFrames :
          (WsSkip(m) \/ WsRaise(m) \/ WsTick(m))
              => (agg' = agg /\ ws' /\ pc' = "streaming")]_vars

\* C4: a bar built by add_tick from a non-empty sequence of ticks has the
\* first price as open, the last as close, the largest and smallest as high
\* and low, and the sum of the sizes as volume, and so has its row.
C4_BarSummarisesTicks ==
    \A i \in DOMAIN agg :
        LET tk == applied[agg[i].k]
            row == to_row(agg[i].o, PRODUCT_ID, isoparse(agg[i].k))
        IN  /\ Len(tk) >= 1
            /\ agg[i].o.open = tk[1][1] /\ row.open = tk[1][1]
            /\ agg[i].o.close = tk[Len(tk)][1] /\ row.close = tk[Len(tk)][1]
            /\ agg[i].o.high = MaxOf(PricesOf(tk)) /\ row.high = MaxOf(PricesOf(tk))
            /\ agg[i].o.low = MinOf(PricesOf(tk)) /\ row.low = MinOf(PricesOf(tk))
            /\ agg[i].o.volume = SumSizes(tk) /\ row.volume = SumSizes(tk)

\* the ticks (100,1),(105,2),(95,1) in scale: open 2, high 3, low 1, close 1, volume 4
C4_Witness ==
    /\ agg # << >>
    /\ applied[agg[1].k] = << <<2, 1>>, <<3, 2>>, <<1, 1>> >>
    /\ agg[1].o = [open |-> 2, high |-> 3, low |-> 1, close |-> 1, volume |-> 4]

\* C5: every run of the flush removes exactly the keys whose bucket start is
\* strictly before the current wall-clock hour boundary, hands exactly their
\* rows to the sink, and keeps every key at or after the boundary.
Stamps(rows) == {rows[i].timestamp : i \in DOMAIN rows}

FlushExact ==
    LET before == Keys(agg)
        after == Keys(agg')
        out == IF sink' = sink THEN {} ELSE Stamps(sink'[Len(sink')])
        now == clock'
    IN  /\ \A k \in before : KeyStart(k) < Boundary(now) => (k \notin after /\ k \in out)
        /\ \A k \in before : KeyStart(k) >= Boundary(now) => (k \in after /\ k \notin out)
        /\ \A k \in after : KeyStart(k) >= Boundary(now)
        /\ \A k \in out : KeyStart(k) < Boundary(now)
        /\ Cardinality((after \cup out) \ before) <= 1
        /\ sink' # sink => /\ sink' = Append(sink, inflight')
                           /\ Len(inflight') = Cardinality(out)

\* a step absorbs a tick exactly when it runs the flush
C5_FlushEvictsExactlyOldKeys == [][nabs' = nabs + 1 => FlushExact]_vars

\* a flush that evicted one bucket and kept another
C5_Witness ==
    /\ pc \in {"ws_write", "poll_write"}
    /\ inflight # << >>
    /\ agg # << >>
    /\ \A i \in DOMAIN agg : KeyStart(agg[i].k) >= Boundary(clock)

\* C6: no bar without a tick is in the Bucket Store, and no row handed to the
\* sink has an unset open, high, low or close.
C6_NoEmptyBarEmitted ==
    /\ \A i \in DOMAIN agg :
          /\ Len(applied[agg[i].k]) >= 1
          /\ agg[i].o.open # None /\ agg[i].o.high # None
          /\ agg[i].o.low # None /\ agg[i].o.close # None
    /\ \A b \in DOMAIN sink : \A i \in DOMAIN sink[b] :
          /\ sink[b][i].open # None /\ sink[b][i].high # None
          /\ sink[b][i].low # None /\ sink[b][i].close # None

\* rows were handed to the sink and a bar is still in the store
C6_Witness == sink # << >> /\ agg # << >> /\ inflight # << >>

\* C7: two absorbed trades have the same bucket key exactly when their
\* instants fall in the same UTC hour.
C7_SameKeyIffSameUtcHour ==
    \A a \in keyed, b \in keyed : (a[2] = b[2]) <=> (a[1] = b[1])

\* C8: run() never returns and never lets an exception escape, and after
\* every stream connect failure, stream read error, stream close and poll
\* failure a new stream connection attempt follows.
C8_LoopNeverEndsAndReconnects ==
    /\ [](pc \notin {"returned", "raised"})
    /\ (Polling ~> pc = "connecting")

\* a failure was caught and the fallback cycle has run: the loop is in its
\* sleep, still running, the connection closed, before the next attempt
C8_Witness == pc = "sleeping" /\ running /\ ~ws

\* C9: all ticks so far were stamped in hour H and absorbed during hour H;
\* a tick stamped in hour H+1 is processed with the clock in hour H+1.  Then
\* that step emits exactly one row, the row of bucket H with all of H's
\* ticks, and leaves exactly the bucket H+1 holding the new tick alone.
HourKey(h) == <<h * UnitsPerHour, 0>>

RollOver(h, price, size) ==
    /\ HourKey(h) \in Keys(agg)
    /\ Len(applied[HourKey(h)]) = nabs
    /\ sink' = Append(sink, inflight')
    /\ inflight' = << to_row(Entry(agg, HourKey(h)).o, PRODUCT_ID, isoparse(HourKey(h))) >>
    /\ agg' = << [k |-> HourKey(h + 1), o |-> add_tick(OHLCV, price, size)] >>

C9_HourRollOverEmitsOneRow ==
    [][(nabs >= 1 /\ nabs' = nabs + 1 /\ Cardinality(hours) = 1
          /\ \A x \in keyed : x[1] \in hours
          /\ \A h \in hours : HourOf(clock') = h + 1)
        => /\ \A m \in TickFrames :
                 (WsTick(m) /\ \A h \in hours : HourOf(Instant(time_of(m.time))) = h + 1)
                     => \A h \in hours : RollOver(h, m.price.v, size_of(m.size))
           /\ \A tk \in GoodTickers :
                 (PollTick(tk, 0) /\ tk.time.tag = "ok"
                     /\ \A h \in hours : HourOf(Instant(time_of(tk.time))) = h + 1)
                     => \A h \in hours : RollOver(h, tk.price.v, size_of(tk.size))]_vars

\* C10 as claimed: after the first successful poll cycle, with nothing
\* absorbed before it, the Bucket Store holds the bucket keyed for the
\* polled time with exactly one tick applied.
PolledKey(tk) == bucket_key(IF tk.time.tag = "ok" THEN time_of(tk.time) ELSE utc_now(clock))

C10_PolledBucketInStore ==
    [][(pc = "polling" /\ nabs = 0 /\ nabs' = 1)
        => \A tk \in GoodTickers, adv \in {0, 1} :
              PollTick(tk, adv)
                 => /\ PolledKey(tk) \in Keys(agg')
                    /\ Len(applied'[PolledKey(tk)]) = 1]_vars

\* C10 as amended: the bucket keyed for the polled time got exactly the one
\* polled tick; it is in the store when its key is not before the current
\* hour boundary, and otherwise it was evicted at once and handed to the sink
\* as the row of that one tick.
C10_PolledBucketStoredOrFlushed ==
    [][(pc = "polling" /\ nabs = 0 /\ nabs' = 1)
        => \A tk \in GoodTickers, adv \in {0, 1} :
              PollTick(tk, adv)
                 => LET key == PolledKey(tk)
                        one == add_tick(OHLCV, tk.price.v, size_of(tk.size))
                    IN  IF KeyStart(key) >= Boundary(clock')
                        THEN /\ agg' = << [k |-> key, o |-> one] >>
                             /\ applied'[key] = << <<tk.price.v, size_of(tk.size)>> >>
                             /\ sink' = << >> /\ pc' = "sleeping"
                        ELSE /\ agg' = << >>
                             /\ sink' = << << to_row(one, PRODUCT_ID, isoparse(key)) >> >>
                             /\ inflight' = sink'[1] /\ pc' = "poll_write"]_vars

\* the first poll after a failed connect absorbed a tick of a past hour: its
\* bucket is already out of the store and its row at the sink
C10_Witness ==
    /\ nabs = 1 /\ pc = "poll_write"
    /\ agg = << >> /\ Len(sink) = 1 /\ Len(sink[1]) = 1


\* C11: the flush is idempotent.  Right after a flush (every absorbing step
\* ends with one), a second maybe_flush_old_buckets on the store it left, at
\* any clock reading of the same wall-clock hour and with no tick absorbed in
\* between, evicts nothing, builds no row and so attempts no write.
SameHourReadings == {c \in 0..MaxClock : HourOf(c) = HourOf(clock')}

C11_FlushIdempotent ==
    [][nabs' = nabs + 1
        => \A c \in SameHourReadings :
              LET again == maybe_flush_old_buckets(agg', utc_now(c))
              IN  /\ again.rows = << >>
                  /\ again.agg = agg']_vars

\* a flush has just evicted a bucket and left another in the store: the
\* second flush would find only the entry that is not old
C11_Witness ==
    /\ pc = "ws_write" /\ inflight # << >> /\ Len(agg) = 1
    /\ maybe_flush_old_buckets(agg, utc_now(clock)).rows = << >>

\* C12: every bar is in one of two shapes.  The bar no tick has reached (the
\* one defaultdict(OHLCV) makes) has open, high, low and close unset and
\* volume 0; a bar that absorbed at least one tick has all four set, with
\* low <= open <= high and low <= close <= high.
Unset(o) == o.open = None /\ o.high = None /\ o.low = None /\ o.close = None

Ordered(o) ==
    /\ o.open # None /\ o.high # None /\ o.low # None /\ o.close # None
    /\ o.low <= o.open /\ o.open <= o.high
    /\ o.low <= o.close /\ o.close <= o.high

C12_BarShape ==
    /\ Unset(OHLCV) /\ OHLCV.volume = 0
    /\ \A i \in DOMAIN agg :
          IF Len(applied[agg[i].k]) = 0
          THEN Unset(agg[i].o) /\ agg[i].o.volume = 0
          ELSE Ordered(agg[i].o)

\* a bar of three ticks whose open lies strictly between low and high and
\* whose close is the high
C12_Witness ==
    /\ agg # << >> /\ Len(applied[agg[1].k]) = 3
    /\ agg[1].o.low < agg[1].o.open /\ agg[1].o.open < agg[1].o.high
    /\ agg[1].o.close = agg[1].o.high

\* C13: after every caught stream failure the supervisor issues exactly one
\* ticker request, then sleeps once, then retries the stream.  A failed
\* connect leads to the poll; the one request ends in the sleep (through the
\* awaited write when the cycle flushed), whether the cycle absorbed a tick
\* or raised; and the sleep is left only for the next connection attempt.
PollCycleOrder ==
    /\ (pc = "connecting" /\ pc' # pc /\ ~ws') => pc' = "polling"
    /\ (pc = "polling" /\ pc' # pc) => pc' \in {"poll_write", "sleeping"}
    /\ (pc = "polling" /\ pc' = "poll_write") => (nabs' = nabs + 1 /\ inflight' # << >>)
    /\ (pc = "poll_write" /\ pc' # pc) => pc' = "sleeping"
    /\ (pc = "sleeping" /\ pc' # pc) => pc' = "connecting"

C13_OnePollThenSleepThenRetry == [][PollCycleOrder]_vars

\* the sleep after a cycle that absorbed nothing: the request failed
C13_Witness == pc = "sleeping" /\ nabs = 0 /\ sink = << >>

\* the open stream connection ends in this step
StreamEnds == Streaming /\ ws /\ ~ws'

\* C14: from STREAMING, whenever the connection ends, by a clean close or by
\* an error, the supervisor is next at the reconnect attempt, with no
\* fallback poll and no sleep in between.
C14_StreamEndReconnectsAtOnce == [][StreamEnds => pc' = "connecting"]_vars

\* C14 as amended: a clean close (the async for ends, connect_ws returns)
\* puts the supervisor at the reconnect attempt at once; an exception out of
\* connect_ws (the connection broke, a frame raised, the awaited flush write
\* raised) puts it at the fallback poll, whose cycle and sleep come before
\* the reconnect.
C14_CloseReconnectsErrorPolls ==
    [][StreamEnds
        => /\ pc' \in {"connecting", "polling"}
           /\ WsClose => pc' = "connecting"
           /\ WsError => pc' = "polling"
           /\ (\E m \in RaiseFrames : WsRaise(m)) => pc' = "polling"
           /\ WriteRaise => pc' = "polling"]_vars

\* the connection is closed and the supervisor is at the fallback poll, with
\* a tick absorbed and a bucket flushed before
C14_Witness == pc = "polling" /\ ~ws /\ nabs >= 1 /\ sink # << >>

\* the volume held by the bars of a store, by the rows of a batch, and by all
\* the batches handed to the sink
RECURSIVE StoreVolume(_)
StoreVolume(a) == IF a = << >> THEN 0 ELSE a[1].o.volume + StoreVolume(Tail(a))

RECURSIVE BatchVolume(_)
BatchVolume(rows) == IF rows = << >> THEN 0 ELSE rows[1].volume + BatchVolume(Tail(rows))

RECURSIVE SinkVolume(_)
SinkVolume(s) == IF s = << >> THEN 0 ELSE BatchVolume(s[1]) + SinkVolume(Tail(s))

\* C15: a bucket leaves the store before the write of its row is attempted,
\* and no row is handed to the backend twice.  A batch is handed over only
\* by the flush of an absorbing step; its rows are of keys no longer in the
\* store, one row a key, and hold exactly what left the store in that step;
\* when the write ends, failed or not, nothing is handed over again and
\* nothing is put back in the store.
HandedOnce ==
    /\ sink' # sink
         => /\ sink' = Append(sink, inflight') /\ inflight' # << >> /\ inflight = << >>
            /\ nabs' = nabs + 1
            /\ \A i \in DOMAIN inflight' : inflight'[i].timestamp \notin Keys(agg')
            /\ Cardinality(Stamps(inflight')) = Len(inflight')
            /\ BatchVolume(inflight') + StoreVolume(agg') = StoreVolume(agg) + (vol' - vol)
    /\ sink' = sink => StoreVolume(agg') = StoreVolume(agg) + (vol' - vol)
    /\ (pc \in {"ws_write", "poll_write"} /\ pc' # pc)
         => (inflight' = << >> /\ sink' = sink /\ agg' = agg)

C15_EvictedBeforeWriteNeverResubmitted == [][HandedOnce]_vars

\* the write of the one flushed bucket has ended and the supervisor is back at
\* the poll: the bucket is in no store entry and in the one batch only
C15_Witness ==
    /\ pc = "polling" /\ inflight = << >> /\ agg = << >>
    /\ nabs = 1 /\ Len(sink) = 1

\* the bucket timestamps of all the rows handed to the sink so far
EvictedStamps == UNION {Stamps(sink[i]) : i \in DOMAIN sink}

\* a key before the hour boundary of the flush with no entry in the store:
\* every evicted key is one
LateKey(key) == key \notin Keys(agg) /\ KeyStart(key) < Boundary(clock')

\* the trade opened an entry of its own under the key, and the flush of the
\* same step evicted it and handed its row, of that one trade, to the sink
Reopened(key, price, size) ==
    /\ key \notin Keys(agg')
    /\ sink' = Append(sink, inflight')
    /\ \E i \in DOMAIN inflight' :
          /\ inflight'[i].timestamp = key
          /\ inflight'[i].open = price /\ inflight'[i].close = price
          /\ inflight'[i].high = price /\ inflight'[i].low = price
          /\ inflight'[i].volume = size

\* C16: a trade for a key that was already evicted is accepted, not dropped.
\* An evicted key has no entry left and lies before the hour boundary; the
\* trade opens a new entry under the same key holding that trade only, and
\* the flush that ends its handling evicts the entry and hands the sink a
\* further row with the same bucket timestamp.
C16_LateTradeReopensKey ==
    [][nabs' = nabs + 1
        => /\ \A k \in EvictedStamps : LateKey(k)
           /\ IF pc = "streaming"
              THEN \A m \in TickFrames :
                      (LateKey(bucket_key(time_of(m.time))) /\ WsTick(m))
                         => Reopened(bucket_key(time_of(m.time)), m.price.v, size_of(m.size))
              ELSE \A tk \in GoodTickers, adv \in {0, 1} :
                      (LateKey(PolledKey(tk)) /\ PollTick(tk, adv))
                         => Reopened(PolledKey(tk), tk.price.v, size_of(tk.size))]_vars

\* two batches of one row each with the same bucket timestamp: the second is
\* the row of the trade that came after the eviction of its key
C16_Witness ==
    /\ Len(sink) = 2 /\ Len(sink[1]) = 1 /\ Len(sink[2]) = 1
    /\ sink[1][1].timestamp = sink[2][1].timestamp
    /\ agg = << >>

\* a handler is between its add_tick and its return: its flush awaits the write
Handling == pc \in {"ws_write", "poll_write"}

\* C17: trades are handled one at a time.  A handler is under way exactly
\* while a batch is being written; a trade is absorbed only from the point
\* where the read loop takes the next frame or the fallback its ticker, never
\* while a handler is under way; and a handler under way ends before the
\* store is touched again.
OneAtATime ==
    /\ Handling <=> inflight # << >>
    /\ nabs' = nabs + 1 => (pc \in {"streaming", "polling"} /\ ~Handling)
    /\ Handling => agg' = agg
    /\ (Handling /\ pc' # pc) => (~Handling' /\ inflight' = << >>)

C17_TradesHandledOneAtATime == [][OneAtATime]_vars

\* the handler of the second trade awaits its write; the handler of the first
\* had ended, its batch being the first at the sink
C17_Witness == pc = "ws_write" /\ nabs = 2 /\ Len(sink) = 2 /\ inflight = sink[2]

\* the supervisor issues the ticker request in this step
PollIssued == pc' = "polling" /\ pc # "polling"

Elapsed(k, c) == KeyStart(k) + UnitsPerHour <= c

\* C19: the life of a store entry.  Entries come and go only in the handling
\* of a trade.  An entry is created by the first trade for its key, holding
\* that trade; it is removed only when its interval has fully elapsed on the
\* wall clock, and its row goes to the sink in the same step; and the flush
\* that ends the handling of a trade leaves no entry whose interval has
\* elapsed, so an elapsed entry is gone with the first trade absorbed at or
\* after its boundary.
EntryLifecycle ==
    /\ nabs' = nabs => agg' = agg
    /\ nabs' = nabs + 1
         => /\ Cardinality(Keys(agg') \ Keys(agg)) <= 1
            /\ \A k \in Keys(agg') \ Keys(agg) :
                  /\ Len(applied'[k]) = 1
                  /\ Entry(agg', k).o.open = Entry(agg', k).o.close
                  /\ Entry(agg', k).o.volume = vol' - vol
            /\ \A k \in Keys(agg) \ Keys(agg') :
                  /\ Elapsed(k, clock')
                  /\ k \in Stamps(inflight') /\ sink' = Append(sink, inflight')
            /\ \A k \in Keys(agg') : ~Elapsed(k, clock')

C19_EntryCreatedOnceEvictedWhenElapsed == [][EntryLifecycle]_vars

\* a polled trade opened the entry of the current hour and its flush evicted
\* the entry of an hour that had elapsed
C19_Witness ==
    /\ pc = "poll_write" /\ Len(agg) = 1 /\ Len(inflight) = 1 /\ nabs = 2
    /\ Elapsed(inflight[1].timestamp, clock)
    /\ ~Elapsed(agg[1].k, clock)
    /\ Len(applied[agg[1].k]) = 1

\* C20: no absorbed tick is lost or counted twice between absorption and
\* emission.  The sizes of all the ticks absorbed so far add up to the volume
\* of the bars in the store plus the volume of all the rows ever handed to
\* the sink; and bar by bar, the volume in the store is the sum of the sizes
\* of the ticks applied to that entry.
C20_VolumeConserved ==
    /\ vol = StoreVolume(agg) + SinkVolume(sink)
    /\ \A i \in DOMAIN agg : agg[i].o.volume = SumSizes(applied[agg[i].k])

\* two ticks of size 1 absorbed: one is in a bar of the store, the other in a
\* row at the sink
C20_Witness ==
    /\ vol = 2 /\ nabs = 2
    /\ StoreVolume(agg) = 1 /\ SinkVolume(sink) = 1

=============================================================================
